---- MODULE Spec2Model ----
(***************************************************************************)
(* A model of sex_places.py: the SexPlacesNearBy resolver (get_closest,    *)
(* parse, load_details, the coordinate validity test), the batch driver    *)
(* (main, write_to_csv) and the dataset locator (find_newest_file).        *)
(*                                                                         *)
(* Python values are modelled as follows.                                  *)
(*   - str: a sequence of one-character strings ('' is <<>>), except the   *)
(*     closed vocabularies (status codes, dict keys, exception names),     *)
(*     which are TLA+ strings.  A search keyword is a sequence of tokens   *)
(*     (words and " ").                                                    *)
(*   - dict: a function whose DOMAIN is the set of keys present.           *)
(*   - None: PyNone where a dict or number is expected, NoneStr where a    *)
(*     str is expected.                                                    *)
(*   - float: [t |-> "float", kind, neg, num, scale], the value            *)
(*     (-1)^neg * num / 10^scale when kind = "finite".                     *)
(***************************************************************************)
EXTENDS Integers, Sequences, FiniteSets, TLC

VARIABLES
    backend,    \* how the places API answers during this run
    company,    \* self.company of the SexPlacesNearBy under way
    pc,         \* position of the driver inside one iteration of main
    kw,         \* index in KEYWORDS of the next nearby search
    received,   \* the nearby-search responses received, in request order
    cleaned,    \* the places get_closest kept for sorting
    ordered,    \* get_closest's sorted candidates (mutated by load_details)
    pos,        \* index in ordered of the candidate the loop is at
    requests,   \* HTTP requests issued for this company
    log,        \* the diagnostics printed
    result,     \* the value get_closest returned
    output,     \* the rows of the output file
    raised,     \* the exception that ended the run, NoneStr if none
    queue,      \* main: the company rows still to process
    attempted,  \* main: per company attempted, whether it yielded a Place
    directory,  \* find_newest_file: the entries of DATA_DIR
    wanted,     \* find_newest_file: the name argument
    found,      \* find_newest_file: the value returned
    input,      \* pure-function runs: the argument drawn
    outcome     \* pure-function runs: the value computed

vars == <<backend, company, pc, kw, received, cleaned, ordered, pos, requests,
          log, result, output, raised, queue, attempted, directory, wanted,
          found, input, outcome>>

(***************************************************************************)
(* Bounds of the model.                                                    *)
(***************************************************************************)
MaxResults == 2    \* nearby searches answering OK, per company
MaxDist == 2       \* greatest distance of a venue from the company
MaxFaults == 2     \* responses other than plain ZERO_RESULTS, faulty backend
MaxCoordLen == 4   \* characters of a textual coordinate
NumCompanies == 2  \* rows of the companies dataset
MaxFiles == 3      \* entries of the data directory

(***************************************************************************)
(* Python values.                                                          *)
(***************************************************************************)
PyNone == [t |-> "none"]
NoneStr == "None"
EmptyStr == <<>>

Get(d, k, default) == IF k \in DOMAIN d THEN d[k] ELSE default

Abs(n) == IF n < 0 THEN -n ELSE n

Digits == {"0", "1", "2", "3", "4", "5", "6", "7", "8", "9"}

DigitVal(c) ==
    CASE c = "0" -> 0 [] c = "1" -> 1 [] c = "2" -> 2 [] c = "3" -> 3
      [] c = "4" -> 4 [] c = "5" -> 5 [] c = "6" -> 6 [] c = "7" -> 7
      [] c = "8" -> 8 [] c = "9" -> 9

\* str.lower(), on the letters the model's names use.
LowerChar(c) ==
    CASE c = "H" -> "h" [] c = "O" -> "o" [] c = "T" -> "t" [] c = "E" -> "e"
      [] c = "L" -> "l" [] c = "M" -> "m" [] c = "S" -> "s" [] c = "X" -> "x"
      [] c = "I" -> "i" [] c = "N" -> "n" [] c = "F" -> "f" [] c = "A" -> "a"
      [] OTHER -> c

Lower(s) == [i \in 1..Len(s) |-> LowerChar(s[i])]

\* Python's `sub in s` on strings.
Contains(s, sub) ==
    \E i \in 0..(Len(s) - Len(sub)) :
        \A j \in 1..Len(sub) : s[i + j] = sub[j]

RECURSIVE StripLeft(_)
StripLeft(s) ==
    IF s # <<>> /\ Head(s) = " " THEN StripLeft(Tail(s)) ELSE s

RECURSIVE StripRight(_)
StripRight(s) ==
    IF s # <<>> /\ s[Len(s)] = " "
    THEN StripRight(SubSeq(s, 1, Len(s) - 1))
    ELSE s

Strip(s) == StripRight(StripLeft(s))

RECURSIVE DigitsValue(_)
DigitsValue(s) ==
    IF s = <<>> THEN 0
    ELSE 10 * DigitsValue(SubSeq(s, 1, Len(s) - 1)) + DigitVal(s[Len(s)])

AllDigits(s) == \A i \in 1..Len(s) : s[i] \in Digits

FloatNaN == [t |-> "float", kind |-> "nan", neg |-> FALSE, num |-> 0, scale |-> 0]
FloatInf(neg) == [t |-> "float", kind |-> "inf", neg |-> neg, num |-> 0, scale |-> 0]
FloatOf(neg, num, scale) ==
    [t |-> "float", kind |-> "finite", neg |-> neg, num |-> num, scale |-> scale]

Str(chars) == [t |-> "str", s |-> chars]

\* The decimal literal grammar of float(str) after the sign: digits with an
\* optional fraction, or a fraction alone (exponents are outside the alphabet).
DecimalLiteral(body) ==
    LET dots == {i \in 1..Len(body) : body[i] = "."}
    IN  IF dots = {}
        THEN IF body # <<>> /\ AllDigits(body)
             THEN FloatOf(FALSE, DigitsValue(body), 0)
             ELSE PyNone
        ELSE IF Cardinality(dots) = 1
        THEN LET d == CHOOSE i \in dots : TRUE
                 ip == SubSeq(body, 1, d - 1)
                 fp == SubSeq(body, d + 1, Len(body))
             IN  IF AllDigits(ip) /\ AllDigits(fp) /\ (ip # <<>> \/ fp # <<>>)
                 THEN FloatOf(FALSE, DigitsValue(ip \o fp), Len(fp))
                 ELSE PyNone
        ELSE PyNone

\* The sign read off the literal is put on the value.
Signed(neg, d) == IF d = PyNone THEN PyNone ELSE [d EXCEPT !.neg = neg]

\* The value of a lower-cased literal without its sign, PyNone if it has none.
Literal(neg, body) ==
    IF body \in {<<"i", "n", "f">>, <<"i", "n", "f", "i", "n", "i", "t", "y">>}
    THEN FloatInf(neg)
    ELSE IF body = <<"n", "a", "n">> THEN FloatNaN
    ELSE Signed(neg, DecimalLiteral(body))

FloatResult(v) ==
    IF v = PyNone THEN [exc |-> "ValueError", val |-> PyNone]
    ELSE [exc |-> NoneStr, val |-> v]

FloatOfStripped(s) ==
    FloatResult(IF s # <<>> /\ Head(s) \in {"-", "+"}
                THEN Literal(Head(s) = "-", Lower(Tail(s)))
                ELSE Literal(FALSE, Lower(s)))

\* float(x): [exc, val].  A str is stripped, takes an optional sign, then
\* "inf", "infinity" or "nan" in any case, or a decimal literal; anything else
\* is a ValueError.  A float is returned as it is; None is a TypeError.
PyFloat(x) ==
    IF x.t = "none" THEN [exc |-> "TypeError", val |-> PyNone]
    ELSE IF x.t = "float" THEN [exc |-> NoneStr, val |-> x]
    ELSE FloatOfStripped(Strip(x.s))

IsNaN(f) == f.kind = "nan"

(***************************************************************************)
(* The places client: URLs, parse, load_details.                           *)
(***************************************************************************)
KEYWORDS ==
    << <<"acompanhantes">>,
       <<"adult", " ", "entertainment", " ", "club">>,
       <<"adult", " ", "entertainment", " ", "store">>,
       <<"gay", " ", "sauna">>,
       <<"massagem">>,
       <<"modeling", " ", "agency">>,
       <<"motel">>,
       <<"night", " ", "club">>,
       <<"sex", " ", "club">>,
       <<"sex", " ", "shop">>,
       <<"strip", " ", "club">>,
       <<"swinger", " ", "clubs">> >>

NoKeyword == <<NoneStr>>

\* str(x) of a coordinate as it stands in the company row.
PyStr(x) ==
    IF x.t = "str" THEN x.s
    ELSE IF x.t = "none" THEN <<NoneStr>>
    ELSE IF x.kind = "nan" THEN <<"nan">>
    ELSE IF x.kind = "inf" THEN (IF x.neg THEN <<"-">> ELSE <<>>) \o <<"inf">>
    ELSE (IF x.neg THEN <<"-">> ELSE <<>>)
         \o <<ToString(x.num), "e-", ToString(x.scale)>>

\* urllib's quote_plus and unquote_plus on a value made of words, spaces and
\* commas.
QuotePlus(tokens) ==
    [i \in 1..Len(tokens) |->
        CASE tokens[i] = " " -> "+"
          [] tokens[i] = "," -> "%2C"
          [] OTHER -> tokens[i]]

UnquotePlus(tokens) ==
    [i \in 1..Len(tokens) |->
        CASE tokens[i] = "+" -> " "
          [] tokens[i] = "%2C" -> ","
          [] OTHER -> tokens[i]]

google_places_url(key, endpoint, query) ==
    [endpoint |-> endpoint,
     query |-> [i \in 1..Len(query) |-> <<query[i][1], QuotePlus(query[i][2])>>]
               \o << <<"key", QuotePlus(key)>> >>]

nearby_url(c, keyword) ==
    google_places_url(<<"APIKey">>, "nearbysearch",
        << <<"location", PyStr(c.latitude) \o <<",">> \o PyStr(c.longitude)>>,
           <<"keyword", keyword>>,
           <<"rankby", <<"distance">> >> >>)

details_url(place) ==
    google_places_url(<<"APIKey">>, "details", << <<"placeid", <<place>> >> >>)

keyword_from_url(url) ==
    LET hits == {i \in 1..Len(url.query) : url.query[i][1] = "keyword"}
    IN  IF hits = {} THEN NoKeyword
        ELSE LET first == CHOOSE i \in hits : \A j \in hits : i <= j
             IN  UnquotePlus(url.query[first][2])

\* re.sub(r'\D', '', cnpj)
OnlyDigits(s) == SelectSeq(s, LAMBDA c : c \in Digits)

get_name(c) ==
    IF Get(c, "trade_name", EmptyStr) # EmptyStr
    THEN c.trade_name
    ELSE Get(c, "name", EmptyStr)

\* A coordinate in whole degrees.
Degrees(f) == (IF f.neg THEN -1 ELSE 1) * (f.num \div (10 ^ f.scale))

\* geopy's vincenty(a, b).meters, on the grid of whole degrees: zero exactly
\* when the two points coincide, and growing with the separation.
Vincenty(a, b) ==
    Abs(Degrees(a[1]) - Degrees(b[1])) + Abs(Degrees(a[2]) - Degrees(b[2]))

\* The diagnostics parse prints.
StatusErrorLine(json) ==
    [line |-> "status_error", status |-> Get(json, "status", NoneStr),
     error |-> Get(json, "error", NoneStr)]

ApiStatusLine(json) ==
    [line |-> "api_status", status |-> Get(json, "status", NoneStr)]

ParseRaise(exc) == [exc |-> exc, ret |-> PyNone, printed |-> <<>>]

\* parse, lines 122-139: the Place built from the first result, once both of
\* its coordinates went through float().
ParsedPlace(c, url, place, lat, lng) ==
    IF lat.exc # NoneStr THEN ParseRaise(lat.exc)
    ELSE IF lng.exc # NoneStr THEN ParseRaise(lng.exc)
    ELSE
    [exc |-> NoneStr,
     printed |-> <<>>,
     ret |->
       [id |-> Get(place, "place_id", NoneStr),
        keyword |-> keyword_from_url(url),
        latitude |-> lat.val,
        longitude |-> lng.val,
        distance |->
            Vincenty(<<PyFloat(c.latitude).val, PyFloat(c.longitude).val>>,
                     <<lat.val, lng.val>>),
        cnpj |-> OnlyDigits(c.cnpj),
        company_name |-> Get(c, "name", EmptyStr),
        company_trade_name |-> Get(c, "trade_name", EmptyStr)]]

LocationOf(place) == Get(Get(place, "geometry", <<>>), "location", <<>>)

FirstResult(c, url, results) ==
    IF Len(results) = 0 THEN ParseRaise("IndexError")
    ELSE ParsedPlace(c, url, results[1],
                     PyFloat(Get(LocationOf(results[1]), "lat", PyNone)),
                     PyFloat(Get(LocationOf(results[1]), "lng", PyNone)))

\* A faulty Diagnostics: ZERO_RESULTS is reported like any other status.
DiagnosticsWithoutSilence(json) ==
    IF "error_message" \in DOMAIN json THEN <<StatusErrorLine(json)>>
    ELSE <<ApiStatusLine(json)>>

\* parse, lines 112-117: what is printed for a response that is not OK.
Diagnostics(json) ==
    IF "error_message" \in DOMAIN json THEN <<StatusErrorLine(json)>>
    ELSE IF json.status # "ZERO_RESULTS" THEN <<ApiStatusLine(json)>>
    ELSE <<>>

\* SexPlacesNearBy.parse: [exc, ret, printed] for a response [url, json].
parse(c, response) ==
    IF "status" \notin DOMAIN response.json THEN ParseRaise("KeyError")
    ELSE IF response.json.status # "OK"
    THEN [exc |-> NoneStr, ret |-> PyNone,
          printed |-> Diagnostics(response.json)]
    ELSE FirstResult(c, response.url,
                     Get(response.json, "results", << <<>> >>))

DetailFields == {"name", "address", "phone"}

\* A faulty Enriched: the address is read from the key 'address'.
EnrichedFromWrongKey(place, res) ==
    [k \in DOMAIN place \cup DetailFields |->
        CASE k = "name" -> Get(res, "name", EmptyStr)
          [] k = "address" -> Get(res, "address", EmptyStr)
          [] k = "phone" -> Get(res, "formatted_phone_number", EmptyStr)
          [] OTHER -> place[k]]

\* place.update(name=..., address=..., phone=...)
Enriched(place, res) ==
    [k \in DOMAIN place \cup DetailFields |->
        CASE k = "name" -> Get(res, "name", EmptyStr)
          [] k = "address" -> Get(res, "formatted_address", EmptyStr)
          [] k = "phone" -> Get(res, "formatted_phone_number", EmptyStr)
          [] OTHER -> place[k]]

\* Whether load_details issues its details request for this place.
asks_details(place) == Get(place, "id", NoneStr) \notin {NoneStr, ""}

\* SexPlacesNearBy.load_details, given the JSON the details request returns.
load_details(place, details) ==
    IF ~asks_details(place) THEN place
    ELSE IF DOMAIN details = {} THEN place
    ELSE Enriched(place, Get(details, "result", <<>>))

\* A faulty CoordinateVerdict: the NaN test is left out.
CoordinateVerdictWithoutNaNTest(f) ==
    IF f.exc = "ValueError" THEN [exc |-> NoneStr, val |-> FALSE]
    ELSE IF f.exc # NoneStr THEN [exc |-> f.exc, val |-> FALSE]
    ELSE [exc |-> NoneStr, val |-> TRUE]

\* is_valid_coordinate after its float(coord): only ValueError is caught.
CoordinateVerdict(f) ==
    IF f.exc = "ValueError" THEN [exc |-> NoneStr, val |-> FALSE]
    ELSE IF f.exc # NoneStr THEN [exc |-> f.exc, val |-> FALSE]
    ELSE [exc |-> NoneStr, val |-> ~IsNaN(f.val)]

\* SexPlacesNearBy.is_valid_coordinate: [exc, val].
is_valid_coordinate(coord) == CoordinateVerdict(PyFloat(coord))

NoGeolocationLine(c) ==
    [line |-> "no_geolocation", name |-> get_name(c), cnpj |-> c.cnpj]

\* is_valid after the two coordinate tests.  all() stops at the first
\* coordinate that is not valid, so the longitude counts only after a valid
\* latitude.
Validity(c, lat, lon) ==
    IF lat.exc # NoneStr THEN [exc |-> lat.exc, val |-> FALSE, printed |-> <<>>]
    ELSE IF lat.val /\ lon.exc # NoneStr
    THEN [exc |-> lon.exc, val |-> FALSE, printed |-> <<>>]
    ELSE IF lat.val /\ lon.val
    THEN [exc |-> NoneStr, val |-> TRUE, printed |-> <<>>]
    ELSE [exc |-> NoneStr, val |-> FALSE, printed |-> <<NoGeolocationLine(c)>>]

\* SexPlacesNearBy.is_valid: [exc, val, printed].
is_valid(c) ==
    Validity(c, is_valid_coordinate(c.latitude), is_valid_coordinate(c.longitude))

\* get_closest's filter: `p and p.get('distance')`.
kept(p) == p # PyNone /\ Get(p, "distance", 0) # 0

\* sorted(cleaned, key=lambda x: x['distance']): a stable insertion sort.
RECURSIVE Insert(_, _)
Insert(sortedSeq, p) ==
    IF sortedSeq = <<>> THEN <<p>>
    ELSE IF Head(sortedSeq).distance <= p.distance
    THEN <<Head(sortedSeq)>> \o Insert(Tail(sortedSeq), p)
    ELSE <<p>> \o sortedSeq

RECURSIVE sorted(_)
sorted(s) ==
    IF s = <<>> THEN <<>>
    ELSE Insert(sorted(SubSeq(s, 1, Len(s) - 1)), s[Len(s)])

Hotel == <<"h", "o", "t", "e", "l">>
Motel == <<"motel">>

\* A faulty is_hotel: the name is not lower-cased.
is_hotel_case_sensitive(place) ==
    place.keyword = Motel /\ Contains(Get(place, "name", EmptyStr), Hotel)

\* get_closest's test on a details-enriched place: a hotel found as a motel.
is_hotel(place) ==
    place.keyword = Motel /\ Contains(Lower(Get(place, "name", EmptyStr)), Hotel)

fieldnames ==
    <<"id", "keyword", "latitude", "longitude", "distance", "name",
      "address", "phone", "cnpj", "company_name", "company_trade_name">>

\* The row csv.DictWriter writes: the declared columns in order, '' for a
\* column the place lacks.
Row(place) ==
    [i \in 1..Len(fieldnames) |-> Get(place, fieldnames[i], EmptyStr)]

\* A faulty write_to_csv: the row is written for None as well.
write_to_csv_unguarded(file, place) == Append(file, Row(place))

\* write_to_csv(path, place) with headers left False: the file afterwards.
write_to_csv(file, place) ==
    IF place = PyNone THEN file
    ELSE Append(file, Row(place))

(***************************************************************************)
(* The dataset locator.                                                    *)
(***************************************************************************)
DATA_DIR == <<"d", "a", "t", "a">>

\* os.path.join(DATA_DIR, filename)
PathJoin(dir, filename) == dir \o <<"/">> \o filename

\* The regular expression \d{4}-\d{2}-\d{2} matches at position i of s.
DateAt(s, i) ==
    /\ i + 9 <= Len(s)
    /\ \A j \in 0..9 :
          IF j \in {4, 7} THEN s[i + j] = "-" ELSE s[i + j] \in Digits

\* date_regex.findall(s) from position i on: the matches left to right, none
\* overlapping another.
RECURSIVE FindAll(_, _)
FindAll(s, i) ==
    IF i + 9 > Len(s) THEN <<>>
    ELSE IF DateAt(s, i) THEN <<SubSeq(s, i, i + 9)>> \o FindAll(s, i + 10)
    ELSE FindAll(s, i + 1)

\* ord() of the characters of a date.
CharOrd(c) == IF c = "-" THEN 45 ELSE 48 + DigitVal(c)

\* a < b on Python strings made of digits and dashes.
StrLess(a, b) ==
    \/ \E i \in 1..Len(a) :
          /\ i <= Len(b)
          /\ CharOrd(a[i]) < CharOrd(b[i])
          /\ \A j \in 1..(i - 1) : a[j] = b[j]
    \/ (Len(a) < Len(b) /\ \A j \in 1..Len(a) : a[j] = b[j])

\* A faulty SortedReverse: the dates are sorted oldest first.
RECURSIVE SortedAscending(_)
SortedAscending(set) ==
    IF set = {} THEN <<>>
    ELSE LET low == CHOOSE d \in set : \A e \in set : ~StrLess(e, d)
         IN  <<low>> \o SortedAscending(set \ {low})

\* sorted(set(...), reverse=True)
RECURSIVE SortedReverse(_)
SortedReverse(set) ==
    IF set = {} THEN <<>>
    ELSE LET top == CHOOSE d \in set : \A e \in set : ~StrLess(d, e)
         IN  <<top>> \o SortedReverse(set \ {top})

\* The first date of each listed name that holds one.
FirstDates(dir) ==
    {FindAll(e.name, 1)[1] : e \in {x \in dir : FindAll(x.name, 1) # <<>>}}

DatedName(d, name) == d \o <<"-">> \o name \o <<".", "x", "z">>

\* os.path.isfile on an entry of DATA_DIR.
IsFile(dir, filename) == \E e \in dir : e.name = filename /\ e.isfile

\* find_newest_file's loop over the dates.
RECURSIVE FirstExisting(_, _, _)
FirstExisting(dir, dates, name) ==
    IF dates = <<>> THEN PyNone
    ELSE IF IsFile(dir, DatedName(Head(dates), name))
    THEN Str(PathJoin(DATA_DIR, DatedName(Head(dates), name)))
    ELSE FirstExisting(dir, Tail(dates), name)

find_newest_file(dir, name) ==
    FirstExisting(dir, SortedReverse(FirstDates(dir)), name)

(***************************************************************************)
(* The inputs: company rows and the answers of the places API.             *)
(***************************************************************************)
Cnpj == <<"1", "2", ".", "3", "/", "4", "-", "5">>
LegalName == <<"A", "c", "m", "e">>
TradeNames == {EmptyStr, <<"B", "a", "r">>}

ValidLatitude == Str(<<"1">>)
ValidLongitude == FloatOf(TRUE, 2, 0)
InvalidCoords == {Str(EmptyStr), Str(<<"x">>), Str(<<"n", "a", "n">>), FloatNaN}

CompanyRow(tn, lat, lon) ==
    [cnpj |-> Cnpj, name |-> LegalName, trade_name |-> tn,
     latitude |-> lat, longitude |-> lon]

ValidCompanies == {CompanyRow(EmptyStr, ValidLatitude, ValidLongitude)}

InvalidCompanies ==
    {CompanyRow(tn, lat, lon) :
        tn \in TradeNames,
        lat \in InvalidCoords \cup {ValidLatitude},
        lon \in InvalidCoords \cup {ValidLongitude}}
    \ {CompanyRow(tn, ValidLatitude, ValidLongitude) : tn \in TradeNames}

Companies == ValidCompanies \cup InvalidCompanies

\* A JSON number: whole degrees.
JsonNumber(n) == FloatOf(n < 0, Abs(n), 0)

\* The first result of a nearby search: a venue d degrees north of the company.
Venue(c, d, ids) ==
    LET geometry ==
            [location |->
                [lat |-> JsonNumber(Degrees(PyFloat(c.latitude).val) + d),
                 lng |-> JsonNumber(Degrees(PyFloat(c.longitude).val))]]
    IN  IF ids THEN [place_id |-> "ChIJ", geometry |-> geometry]
        ELSE [geometry |-> geometry]

OkBody(place) == [status |-> "OK", results |-> <<place>>]

ZeroResults == [status |-> "ZERO_RESULTS", results |-> <<>>]

VenueBodies(c) ==
    {OkBody(Venue(c, d, ids)) : d \in 0..MaxDist, ids \in BOOLEAN}

ErrorMessage == <<"q", "u", "o", "t", "a">>

\* Answers that are not OK, and answers with keys missing.
FaultyBodies(c) ==
    { [status |-> "ZERO_RESULTS", results |-> <<>>, error_message |-> ErrorMessage],
      [status |-> "OVER_QUERY_LIMIT", results |-> <<>>],
      [status |-> "REQUEST_DENIED", results |-> <<>>, error_message |-> ErrorMessage],
      [results |-> <<>>],
      [status |-> "OK", results |-> <<>>],
      [status |-> "OK"],
      OkBody([place_id |-> "ChIJ",
              geometry |-> [location |-> [lat |-> Str(<<"x">>),
                                          lng |-> JsonNumber(0)]]]),
      OkBody(Venue(c, 1, TRUE)) }

HotelName == <<"H", "o", "t", "e", "l", " ", "C">>
ShopName == <<"S", "h", "o", "p", " ", "X">>
Address == <<"R", "u", "a">>
Phone == <<"5", "5">>

\* The JSON of a details response.
DetailsBodies ==
    { <<>>,
      [status |-> "NOT_FOUND"],
      [status |-> "OK",
       result |-> [name |-> HotelName, formatted_address |-> Address,
                   formatted_phone_number |-> Phone]],
      [status |-> "OK",
       result |-> [name |-> ShopName, formatted_address |-> Address]] }

IsOk(body) == Get(body, "status", NoneStr) = "OK"

CountOk(bodies) == Cardinality({i \in 1..Len(bodies) : IsOk(bodies[i])})

CountFaults(bodies) ==
    Cardinality({i \in 1..Len(bodies) : bodies[i] # ZeroResults})

\* What the places API may answer next, given what it answered so far.
Answers ==
    CASE backend = "venues" ->
            {ZeroResults}
            \cup (IF CountOk(received) < MaxResults
                  THEN VenueBodies(company) ELSE {})
      [] backend = "faulty" ->
            {ZeroResults}
            \cup (IF CountFaults(received) < MaxFaults
                  THEN FaultyBodies(company) ELSE {})
      [] backend = "sparse" ->
            {ZeroResults}
            \cup (IF CountOk(received) = 0
                  THEN {OkBody(Venue(company, 1, TRUE))} ELSE {})

\* What the places API may answer to a details request.
DetailsAnswers ==
    IF backend = "sparse"
    THEN {b \in DetailsBodies : "result" \in DOMAIN b}
    ELSE DetailsBodies

\* The response requests.get returned to the i-th nearby search.
ResponseAt(i) ==
    [url |-> nearby_url(company, KEYWORDS[i]), json |-> received[i]]

(***************************************************************************)
(* One iteration of main: SexPlacesNearBy(company).get_closest(), then     *)
(* write_to_csv.  The steps of get_closest are cut at its HTTP requests.   *)
(***************************************************************************)
resolverVars ==
    <<company, pc, kw, received, cleaned, ordered, pos, requests, log, result,
      output, raised>>
driverVars == <<queue, attempted>>
locatorVars == <<directory, wanted, found>>
pureVars == <<input, outcome>>

\* get_closest, lines 52-53, given what is_valid returned.
Validated(v) ==
    /\ log' = log \o v.printed
    /\ IF v.exc # NoneStr
       THEN /\ raised' = v.exc
            /\ pc' = "raised"
            /\ UNCHANGED result
       ELSE IF ~v.val
       THEN /\ result' = PyNone
            /\ pc' = "returned"
            /\ UNCHANGED raised
       ELSE /\ pc' = "search"
            /\ UNCHANGED <<result, raised>>

\* get_closest up to its first request: the is_valid test.
Enter ==
    /\ pc = "start"
    /\ Validated(is_valid(company))
    /\ UNCHANGED <<backend, company, kw, received, cleaned, ordered, pos,
                   requests, output>>
    /\ UNCHANGED <<driverVars, locatorVars, pureVars>>

\* get_closest, lines 55-56, given what parse made of the response.
Collected(p) ==
    /\ log' = log \o p.printed
    /\ IF p.exc # NoneStr
       THEN /\ raised' = p.exc
            /\ pc' = "raised"
            /\ UNCHANGED <<kw, cleaned>>
       ELSE /\ cleaned' = IF kept(p.ret) THEN Append(cleaned, p.ret) ELSE cleaned
            /\ kw' = kw + 1
            /\ UNCHANGED <<raised, pc>>

\* load_place(k): the nearby search for the next keyword, parsed and filtered.
Search ==
    /\ pc = "search"
    /\ kw <= Len(KEYWORDS)
    /\ \E body \in Answers :
        /\ received' = Append(received, body)
        /\ Collected(parse(company,
                           [url |-> nearby_url(company, KEYWORDS[kw]),
                            json |-> body]))
    /\ requests' = requests + 1
    /\ UNCHANGED <<backend, company, ordered, pos, result, output>>
    /\ UNCHANGED <<driverVars, locatorVars, pureVars>>

\* sorted(cleaned, ...) once every keyword was searched.
Sort ==
    /\ pc = "search"
    /\ kw > Len(KEYWORDS)
    /\ ordered' = sorted(cleaned)
    /\ pos' = 1
    /\ pc' = "loop"
    /\ UNCHANGED <<backend, company, kw, received, cleaned, requests, log,
                   result, output, raised>>
    /\ UNCHANGED <<driverVars, locatorVars, pureVars>>

\* A faulty Tested: a rejected candidate is looked at again.
TestedWithoutAdvancing(place) ==
    /\ ordered' = [ordered EXCEPT ![pos] = place]
    /\ IF is_hotel(place)
       THEN UNCHANGED <<pos, result, pc>>
       ELSE /\ result' = place
            /\ pc' = "returned"
            /\ UNCHANGED pos

\* get_closest, lines 60-65, given the place load_details returned.
Tested(place) ==
    /\ ordered' = [ordered EXCEPT ![pos] = place]
    /\ IF is_hotel(place)
       THEN /\ pos' = pos + 1
            /\ UNCHANGED <<result, pc>>
       ELSE /\ result' = place
            /\ pc' = "returned"
            /\ UNCHANGED pos

\* One pass of `for place in ordered`: load_details, then the hotel test.
Visit ==
    /\ pc = "loop"
    /\ pos <= Len(ordered)
    /\ IF asks_details(ordered[pos])
       THEN /\ requests' = requests + 1
            /\ \E details \in DetailsAnswers :
                Tested(load_details(ordered[pos], details))
       ELSE /\ requests' = requests
            /\ Tested(load_details(ordered[pos], <<>>))
    /\ UNCHANGED <<backend, company, kw, received, cleaned, log, output, raised>>
    /\ UNCHANGED <<driverVars, locatorVars, pureVars>>

\* The loop ran out of candidates: return None.
Exhausted ==
    /\ pc = "loop"
    /\ pos > Len(ordered)
    /\ result' = PyNone
    /\ pc' = "returned"
    /\ UNCHANGED <<backend, company, kw, received, cleaned, ordered, pos,
                   requests, log, output, raised>>
    /\ UNCHANGED <<driverVars, locatorVars, pureVars>>

\* main: write_to_csv(OUTPUT, sex_places.get_closest()).
Write ==
    /\ pc = "returned"
    /\ output' = write_to_csv(output, result)
    /\ attempted' = Append(attempted, [row |-> company, place |-> result])
    /\ pc' = "written"
    /\ UNCHANGED <<backend, company, kw, received, cleaned, ordered, pos,
                   requests, log, result, raised>>
    /\ UNCHANGED <<queue, locatorVars, pureVars>>

\* main: the for loop takes the next row and builds its SexPlacesNearBy.
NextCompany ==
    /\ pc = "written"
    /\ queue # <<>>
    /\ company' = Head(queue)
    /\ queue' = Tail(queue)
    /\ pc' = "start"
    /\ kw' = 1
    /\ received' = <<>>
    /\ cleaned' = <<>>
    /\ ordered' = <<>>
    /\ pos' = 1
    /\ requests' = 0
    /\ result' = PyNone
    /\ UNCHANGED <<backend, log, output, raised, attempted>>
    /\ UNCHANGED <<locatorVars, pureVars>>

Idle == <<>>

\* main(companies) on the first row of the dataset.
InitMain(kind, dataset) ==
    /\ backend = kind
    /\ company = Head(dataset)
    /\ queue = Tail(dataset)
    /\ attempted = <<>>
    /\ input = dataset
    /\ pc = "start"
    /\ kw = 1
    /\ received = <<>>
    /\ cleaned = <<>>
    /\ ordered = <<>>
    /\ pos = 1
    /\ requests = 0
    /\ log = <<>>
    /\ result = PyNone
    /\ output = <<>>
    /\ raised = NoneStr
    /\ directory = {} /\ wanted = Idle /\ found = PyNone
    /\ outcome = Idle

Init == \E c \in Companies : InitMain("venues", <<c>>)

InitFaulty == \E c \in Companies : InitMain("faulty", <<c>>)

\* The rows of a companies dataset: the i-th has its own cnpj.
DatasetRow(i, c) == [c EXCEPT !.cnpj = Cnpj \o <<ToString(i)>>]

RowSamples ==
    ValidCompanies
    \cup {CompanyRow(<<"B", "a", "r">>, Str(EmptyStr), ValidLongitude)}

Datasets ==
    {[i \in 1..NumCompanies |-> DatasetRow(i, f[i])] :
        f \in [1..NumCompanies -> RowSamples]}

InitBatch == \E d \in Datasets : InitMain("sparse", d)

Next == Enter \/ Search \/ Sort \/ Visit \/ Exhausted \/ Write

NextBatch == Next \/ NextCompany

\* One company resolved against a backend that serves venues.
Spec == Init /\ [][Next]_vars

\* One company resolved against a backend that answers with errors.
SpecFaulty == InitFaulty /\ [][Next]_vars

\* main over a dataset of several companies.
SpecMain == InitBatch /\ [][NextBatch]_vars

(***************************************************************************)
(* The pure functions, each applied to an argument drawn at the start.     *)
(***************************************************************************)
InitPure(kind, arg) ==
    /\ pc = kind
    /\ input = arg
    /\ outcome = Idle
    /\ backend = "none"
    /\ company = Idle /\ queue = Idle /\ attempted = Idle
    /\ kw = 1 /\ pos = 1 /\ requests = 0
    /\ received = <<>> /\ cleaned = <<>> /\ ordered = <<>>
    /\ log = <<>> /\ output = <<>>
    /\ result = PyNone
    /\ raised = NoneStr
    /\ directory = {} /\ wanted = Idle /\ found = PyNone

Computed(kind, value) ==
    /\ pc = kind
    /\ outcome' = value
    /\ pc' = "done"
    /\ UNCHANGED <<backend, company, kw, received, cleaned, ordered, pos,
                   requests, log, result, output, raised, queue, attempted,
                   directory, wanted, found, input>>

\* Textual coordinates: every string of the alphabet up to MaxCoordLen long.
CoordChars == {"1", "-", ".", "n", "a", "i", "f", " "}

CoordTexts == UNION {[1..n -> CoordChars] : n \in 0..MaxCoordLen}

\* Coordinates as a row of the dataset may hold them: text, or a float of a
\* numeric column.
CoordInputs ==
    {Str(t) : t \in CoordTexts}
    \cup {FloatNaN, FloatInf(FALSE), FloatInf(TRUE), FloatOf(TRUE, 235, 1)}

LongitudeInputs == {ValidLongitude, Str(EmptyStr), Str(<<"i", "n", "f">>)}

InitCoord ==
    \E lat \in CoordInputs, lon \in LongitudeInputs :
        InitPure("coord", CompanyRow(EmptyStr, lat, lon))

\* is_valid_coordinate on each coordinate, and is_valid on the company.
Validate ==
    Computed("coord",
             [latitude |-> is_valid_coordinate(input.latitude),
              longitude |-> is_valid_coordinate(input.longitude),
              company |-> is_valid(input)])

SpecCoord == InitCoord /\ [][Validate]_vars

\* The places parse builds, for load_details.
PlaceOf(keyword, body) ==
    parse(CompanyRow(EmptyStr, ValidLatitude, ValidLongitude),
          [url |-> nearby_url(CompanyRow(EmptyStr, ValidLatitude, ValidLongitude),
                              keyword),
           json |-> body]).ret

PlaceResults ==
    {Venue(CompanyRow(EmptyStr, ValidLatitude, ValidLongitude), d, ids) :
        d \in 1..MaxDist, ids \in BOOLEAN}
    \cup {[Venue(CompanyRow(EmptyStr, ValidLatitude, ValidLongitude), d, TRUE)
               EXCEPT !.place_id = ""] : d \in 1..MaxDist}

PlaceInputs ==
    {PlaceOf(KEYWORDS[k], OkBody(r)) : k \in 1..Len(KEYWORDS), r \in PlaceResults}

DetailSamples ==
    [name |-> HotelName, formatted_address |-> Address,
     formatted_phone_number |-> Phone]

\* Details responses: empty, without 'result', and with every subset of the
\* three fields in 'result'.
DetailsInputs ==
    {<<>>, [status |-> "NOT_FOUND"]}
    \cup {[status |-> "OK", result |-> [k \in keys |-> DetailSamples[k]]] :
            keys \in SUBSET DOMAIN DetailSamples}

InitDetails ==
    \E p \in PlaceInputs, d \in DetailsInputs :
        InitPure("details", [place |-> p, details |-> d])

\* load_details on the place, the details request answered by input.details.
Enrich ==
    Computed("details", load_details(input.place, input.details))

SpecDetails == InitDetails /\ [][Enrich]_vars

\* The data directory: snapshots of two datasets on four dates, a directory
\* named like a snapshot, and names that hold a date elsewhere or none.
Date1 == <<"2", "0", "2", "2", "-", "1", "2", "-", "3", "1">>
Date2 == <<"2", "0", "2", "3", "-", "0", "1", "-", "0", "1">>
Date3 == <<"2", "0", "2", "3", "-", "0", "1", "-", "0", "5">>
Date4 == <<"2", "0", "2", "3", "-", "0", "1", "-", "1", "0">>
SnapshotDates == {Date1, Date2, Date3, Date4}

CompaniesName == <<"c", "o", "m", "p", "a", "n", "i", "e", "s">>
OtherName == <<"o", "t", "h", "e", "r">>
DatasetNames == {CompaniesName, OtherName}

Entries ==
    {[name |-> DatedName(d, n), isfile |-> TRUE] :
        d \in SnapshotDates, n \in DatasetNames}
    \cup {[name |-> DatedName(Date4, CompaniesName), isfile |-> FALSE],
          [name |-> <<"l", "o", "g", "-">> \o Date4 \o <<".", "t", "x", "t">>,
           isfile |-> TRUE],
          [name |-> Date2 \o <<"-">> \o Date4 \o <<".", "x", "z">>,
           isfile |-> TRUE],
          [name |-> <<"R", "E", "A", "D", "M", "E">>, isfile |-> TRUE]}

\* os.listdir gives each name once.
Directories ==
    {dir \in SUBSET Entries :
        /\ Cardinality(dir) <= MaxFiles
        /\ \A e, f \in dir : e.name = f.name => e = f}

InitLocator ==
    /\ directory \in Directories
    /\ wanted \in DatasetNames
    /\ found = PyNone
    /\ pc = "locate"
    /\ input = Idle /\ outcome = Idle
    /\ backend = "none"
    /\ company = Idle /\ queue = Idle /\ attempted = Idle
    /\ kw = 1 /\ pos = 1 /\ requests = 0
    /\ received = <<>> /\ cleaned = <<>> /\ ordered = <<>>
    /\ log = <<>> /\ output = <<>>
    /\ result = PyNone
    /\ raised = NoneStr

\* find_newest_file(wanted) on the directory.
Locate ==
    /\ pc = "locate"
    /\ found' = find_newest_file(directory, wanted)
    /\ pc' = "done"
    /\ UNCHANGED <<backend, company, kw, received, cleaned, ordered, pos,
                   requests, log, result, output, raised, queue, attempted,
                   directory, wanted, input, outcome>>

SpecLocator == InitLocator /\ [][Locate]_vars

(***************************************************************************)
(* Properties of the resolver.                                             *)
(***************************************************************************)
SearchFields ==
    {"id", "keyword", "latitude", "longitude", "distance", "cnpj",
     "company_name", "company_trade_name"}

Restrict(place, keys) == [k \in keys \cap DOMAIN place |-> place[k]]

Returned == pc \in {"returned", "written"}

\* The disambiguation rule as the specification words it.
HotelAsMotel(place) ==
    /\ place.keyword = <<"motel">>
    /\ Contains(Lower(Get(place, "name", EmptyStr)), <<"h", "o", "t", "e", "l">>)

\* The per-keyword search results that have a distance.
Candidates ==
    {parse(company, ResponseAt(i)).ret :
        i \in {j \in 1..Len(received) : IsOk(received[j])}}

\* The loop looked at this candidate and rejected it.
Rejected(c) ==
    \E j \in 1..(pos - 1) :
        /\ j <= Len(ordered)
        /\ Restrict(ordered[j], SearchFields) = c
        /\ HotelAsMotel(ordered[j])

NearestAmong(cands) ==
    Returned =>
        IF result = PyNone
        THEN \A c \in cands : Rejected(c)
        ELSE /\ Restrict(result, SearchFields) \in cands
             /\ ~HotelAsMotel(result)
             /\ \A c \in cands : c.distance < result.distance => Rejected(c)

\* C1: get_closest returns the candidate of minimum distance that passes the
\* disambiguation filter, the candidates being every search result that has a
\* distance, one at distance 0 included; it returns None only when there is no
\* candidate or every candidate is rejected.
C1_NearestOfAllCandidates == NearestAmong(Candidates)

\* What the code does: the same with the results at distance 0 left out.
NearestOfNonzeroCandidates ==
    NearestAmong({c \in Candidates : c.distance # 0})

ZeroDistanceDropped ==
    /\ Returned
    /\ \E c \in Candidates : c.distance = 0
    /\ result # PyNone

InvalidCompany ==
    company.latitude \in InvalidCoords \/ company.longitude \in InvalidCoords

\* C2: for a company whose latitude or longitude is empty, non-numeric or NaN,
\* get_closest returns None without a single nearby-search or details request,
\* nothing is written and no exception ends the iteration.
C2_InvalidCompanySkipped ==
    InvalidCompany =>
        /\ requests = 0
        /\ received = <<>>
        /\ raised = NoneStr
        /\ pc \in {"start", "returned", "written"}
        /\ Returned => result = PyNone
        /\ output = <<>>

C2_Witness ==
    /\ InvalidCompany
    /\ pc = "written"
    /\ log # <<>>

\* C3: a details-enriched candidate is rejected exactly when its keyword is
\* 'motel' and its lower-cased name contains 'hotel'; every other candidate is
\* returned at once.  So a nearest motel result named like a hotel is skipped
\* and the next candidate, a 'sex shop' result, is returned with its details.
C3_FilterRejectsHotelsOnly ==
    /\ \A j \in 1..Len(ordered) : j < pos => HotelAsMotel(ordered[j])
    /\ (Returned /\ result # PyNone) =>
            /\ result = ordered[pos]
            /\ ~HotelAsMotel(result)
    /\ (Returned /\ result = PyNone /\ ~InvalidCompany) => pos = Len(ordered) + 1
    /\ (Returned /\ Len(ordered) >= 2 /\ pos >= 2) => result = ordered[2]

C3_Witness ==
    /\ pc = "returned"
    /\ pos = 2
    /\ result # PyNone
    /\ ordered[1].keyword = <<"motel">>
    /\ Get(ordered[1], "name", EmptyStr) = HotelName
    /\ ordered[1].distance = 1
    /\ result.keyword = <<"sex", " ", "shop">>
    /\ Get(result, "name", EmptyStr) = ShopName
    /\ result.distance = 2

HasStatus(body) == "status" \in DOMAIN body

NotOk(body) == HasStatus(body) /\ body.status # "OK"

ErrorLines == {i \in 1..Len(log) : log[i].line \in {"status_error", "api_status"}}

NotZeroResults(body) == body.status # "ZERO_RESULTS"

MessageOrNotZeroResults(body) ==
    "error_message" \in DOMAIN body \/ body.status # "ZERO_RESULTS"

\* The responses of the run that are not OK and whose status is not
\* ZERO_RESULTS.
NotZeroResultsReceived ==
    {i \in 1..Len(received) :
        NotOk(received[i]) /\ NotZeroResults(received[i])}

\* The responses of the run that are not OK and carry an error_message or a
\* status that is not ZERO_RESULTS.
MessageOrNotZeroResultsReceived ==
    {i \in 1..Len(received) :
        NotOk(received[i]) /\ MessageOrNotZeroResults(received[i])}

\* A response that is not OK yields no candidate and no exception.
NotOkIsNull ==
    /\ \A i \in 1..Len(cleaned) :
          \E j \in 1..Len(received) :
              /\ IsOk(received[j])
              /\ cleaned[i].keyword = KEYWORDS[j]
    /\ raised # NoneStr => ~NotOk(received[Len(received)])

PlainZeroResults(body) == body = ZeroResults

AnyZeroResults(body) == HasStatus(body) /\ body.status = "ZERO_RESULTS"

\* get_closest returned after every keyword answered ZERO_RESULTS.
AllZeroResults ==
    /\ Returned
    /\ Len(received) = Len(KEYWORDS)
    /\ \A i \in 1..Len(received) : AnyZeroResults(received[i])

\* The same, no answer carrying an error_message.
AllPlainZeroResults ==
    /\ Returned
    /\ Len(received) = Len(KEYWORDS)
    /\ \A i \in 1..Len(received) : PlainZeroResults(received[i])

AllQuietWitness == AllPlainZeroResults /\ backend = "faulty" /\ ~InvalidCompany

MissingKeys(body) ==
    \/ ~HasStatus(body)
    \/ (IsOk(body) /\ "results" \in DOMAIN body /\ body.results = <<>>)

\* A coordinate of the first result that float() refuses; the first result of
\* a response without 'results' is the empty dict.
RefusedCoordinate(results) ==
    /\ results # <<>>
    /\ \E k \in {"lat", "lng"} :
          PyFloat(Get(LocationOf(results[1]), k, PyNone)).exc # NoneStr

BadCoordinate(body) ==
    IsOk(body) /\ RefusedCoordinate(Get(body, "results", << <<>> >>))

\* C8: parse does not raise on a received response with keys missing: for a
\* response lacking 'status', or OK with an empty 'results' list, it prints a
\* diagnostic and returns None; the only exception out of parse is the numeric
\* conversion error on an invalid coordinate value.
C8_MissingKeysDoNotRaise ==
    /\ raised # NoneStr => BadCoordinate(received[Len(received)])
    /\ \A i \in 1..Len(received) :
          MissingKeys(received[i]) => ErrorLines # {}

\* A response without 'status' ended get_closest with the KeyError of line 111.
MissingStatusRaises ==
    /\ received # <<>>
    /\ ~HasStatus(received[Len(received)])
    /\ raised = "KeyError"

(***************************************************************************)
(* Properties of load_details, main, find_newest_file and the validity     *)
(* test.                                                                   *)
(***************************************************************************)
Done == pc = "done"

NoId(place) == place.id = NoneStr \/ place.id = ""

FieldOr(d, k) ==
    IF "result" \in DOMAIN d /\ k \in DOMAIN d.result THEN d.result[k] ELSE EmptyStr

\* C5: load_details changes only name, address and phone: with a non-empty
\* details response each is the response's value, or '' when missing, and
\* every prior field is unchanged; with an empty response, or a place with no
\* id, the place is returned with no field changed.
C5_OnlyDetailFieldsChange ==
    Done =>
        IF NoId(input.place) \/ input.details = <<>>
        THEN outcome = input.place
        ELSE /\ DOMAIN outcome = DOMAIN input.place \cup {"name", "address", "phone"}
             /\ \A k \in DOMAIN input.place : outcome[k] = input.place[k]
             /\ outcome.name = FieldOr(input.details, "name")
             /\ outcome.address = FieldOr(input.details, "formatted_address")
             /\ outcome.phone = FieldOr(input.details, "formatted_phone_number")

C5_Witness ==
    /\ Done
    /\ input.place.id = "ChIJ"
    /\ input.details # <<>>
    /\ "result" \in DOMAIN input.details
    /\ DOMAIN input.details.result = {"name", "formatted_address"}
    /\ outcome.phone = EmptyStr
    /\ outcome.name = HotelName
    /\ outcome.distance = input.place.distance

\* The rows of the companies that yielded a Place, in the order attempted.
RECURSIVE RowsOf(_)
RowsOf(att) ==
    IF att = <<>> THEN <<>>
    ELSE RowsOf(SubSeq(att, 1, Len(att) - 1))
         \o (IF att[Len(att)].place = PyNone
             THEN <<>>
             ELSE <<[i \in 1..Len(fieldnames) |->
                        Get(att[Len(att)].place, fieldnames[i], EmptyStr)]>>)

\* C6: main attempts the company rows once each in input order; a company
\* whose get_closest returned a Place appends one row and one that returned
\* None appends nothing, so after any prefix of the companies the file holds
\* the rows of those that yielded a Place, in order.
C6_OneRowPerYieldedPlace ==
    /\ Len(attempted) + Len(queue) + (IF pc = "written" THEN 0 ELSE 1) = Len(input)
    /\ \A i \in 1..Len(attempted) : attempted[i].row = input[i]
    /\ company = input[Len(input) - Len(queue)]
    /\ output = RowsOf(attempted)

C6_Witness ==
    /\ pc = "written"
    /\ queue = <<>>
    /\ Len(attempted) = 2
    /\ attempted[1].place = PyNone
    /\ attempted[2].place # PyNone
    /\ Len(output) = 1

\* The date as a number, YYYYMMDD.
DateKey(d) == DigitsValue(SelectSeq(d, LAMBDA c : c # "-"))

\* The dates embedded in a name of the directory for which the snapshot of
\* the wanted dataset exists as a file.
LocatableDates ==
    {d \in SnapshotDates :
        /\ \E e \in directory : Contains(e.name, d)
        /\ \E e \in directory :
              /\ e.isfile
              /\ e.name = d \o <<"-">> \o wanted \o <<".", "x", "z">>}

\* C9: find_newest_file(name) returns '<DATA_DIR>/<d>-<name>.xz' for the
\* greatest date d, among the dates embedded in the names of the data
\* directory, for which that file exists, and None when there is none; dates
\* of other datasets' files never hide an older existing snapshot.
C9_NewestExistingSnapshot ==
    Done =>
        IF LocatableDates = {}
        THEN found = PyNone
        ELSE \E d \in LocatableDates :
                /\ \A e \in LocatableDates : DateKey(e) <= DateKey(d)
                /\ found = Str(DATA_DIR \o <<"/">> \o d \o <<"-">> \o wanted
                               \o <<".", "x", "z">>)

C9_Witness ==
    /\ Done
    /\ wanted = CompaniesName
    /\ [name |-> DatedName(Date2, CompaniesName), isfile |-> TRUE] \in directory
    /\ [name |-> DatedName(Date3, CompaniesName), isfile |-> TRUE] \in directory
    /\ [name |-> DatedName(Date4, OtherName), isfile |-> TRUE] \in directory
    /\ found = Str(PathJoin(DATA_DIR, DatedName(Date3, CompaniesName)))

\* The value parses as a finite real number.
FiniteReal(x) == PyFloat(x).exc = NoneStr /\ PyFloat(x).val.kind = "finite"

\* The value parses as a number that is not NaN.
NotNaN(x) == PyFloat(x).exc = NoneStr /\ PyFloat(x).val.kind # "nan"

\* The verdicts computed are those given, and none raised.
ValidityIs(goodLatitude, goodLongitude) ==
    /\ outcome.latitude.exc = NoneStr
    /\ outcome.latitude.val = goodLatitude
    /\ outcome.longitude.val = goodLongitude
    /\ outcome.company.exc = NoneStr
    /\ outcome.company.val = (goodLatitude /\ goodLongitude)

\* C10: is_valid_coordinate is true exactly for the values that parse as a
\* finite real number: false for unparseable text, the empty string, NaN and
\* either infinity; is_valid accepts a company only when both coordinates are
\* valid.
C10_ValidIffFinite ==
    Done => ValidityIs(FiniteReal(input.latitude), FiniteReal(input.longitude))

\* What the code does: the infinities are accepted.
ValidIffNotNaN ==
    Done => ValidityIs(NotNaN(input.latitude), NotNaN(input.longitude))

InfinityAccepted ==
    /\ Done
    /\ input.latitude = Str(<<"-", "i", "n", "f">>)
    /\ outcome.latitude.val

====
